---- MODULE Spec2Model ----
(***************************************************************************)
(* Governance.sol: the proposal registry and voting ledger.               *)
(*                                                                         *)
(* Storage is the pair (proposals, proposalCount).  Every external call is *)
(* one transaction: it runs to completion, and a failed require reverts    *)
(* every storage write and every log of the call.  `events` is the log of  *)
(* the contract, `blockTimestamp` is block.timestamp, and `ret` is the     *)
(* outcome of the most recent call (the call itself, the revert reason or  *)
(* "" on success, and the tuple of returned values).                       *)
(***************************************************************************)
EXTENDS Integers, Sequences, FiniteSets, TLC

VARIABLES proposals, proposalCount, events, blockTimestamp, ret

\* useBlockchain.ts: the state of the hook (the values the next render will
\* show, every queued update applied), what the callbacks of the last render
\* captured, the connection requests awaiting the wallet, and the outcome of
\* the most recent call of a callback
VARIABLES account, transactions, hookProposals, balanceHistory, tokenHolders,
          votedProposalIds, rendered, pendingConnects, hookRet

\* history of the hook: the ids voteOnProposal was called with since the
\* account was last set or cleared, and how many votes each address has
\* added to the tallies of each proposal id
VARIABLES sessionVoted, votesCast

\* TransactionModal: its props isOpen and transactionType, its useState
\* values amount, recipient and error, and in `calls` the handler that ran
\* last followed by the calls of onConfirm and onClose it made
VARIABLES modal

govVars == <<proposals, proposalCount, events, blockTimestamp, ret>>

hookVars == <<account, transactions, hookProposals, balanceHistory,
              tokenHolders, votedProposalIds, rendered, pendingConnects,
              hookRet, sessionVoted, votesCast>>

modalVars == <<modal>>

vars == <<govVars, hookVars, modalVars>>

(* ------------------------------ bounds -------------------------------- *)

\* number of proposals that may be created
MaxProposals == 2
\* number of events the contract may log
MaxEvents == 3

(* ----------------------------- constants ------------------------------ *)

VOTING_PERIOD == 1209600
MIN_VOTES_TO_PASS == 1000

\* msg.sender of the transactions: two externally owned accounts
Voters == {1, 2}
\* address(this), the address of the deployed contract
Self == Cardinality(Voters) + 1
\* the proposal ids the callers pass: the valid ones and one beyond
ProposalIds == 0..MaxProposals
\* the strings the callers pass
Titles == {"", "Lower fees"}
Descriptions == {"", "Reduce fees to 0.1%"}
\* the values block.timestamp takes: the deployment block, the block one
\* voting period later and the block one second after that
Timestamps == {0, VOTING_PERIOD, VOTING_PERIOD + 1}

(* ------------------------------ storage ------------------------------- *)

\* the value of a storage slot of mapping `proposals` that was never written
Proposal == [id |-> 0, title |-> "", description |-> "", proposer |-> 0,
             endDate |-> 0, votesFor |-> 0, votesAgainst |-> 0,
             totalVoters |-> 0, isExecuted |-> FALSE, hasVoted |-> {}]

ProposalCreated(proposalId, title, proposer, endDate) ==
    [name |-> "ProposalCreated", proposalId |-> proposalId, title |-> title,
     proposer |-> proposer, endDate |-> endDate]

VoteCast(proposalId, voter, support, votesFor, votesAgainst) ==
    [name |-> "VoteCast", proposalId |-> proposalId, voter |-> voter,
     support |-> support, votesFor |-> votesFor, votesAgainst |-> votesAgainst]

\* a call that reverts: storage and log as before the call
Revert(reason) ==
    [err |-> reason, proposalCount |-> proposalCount, proposals |-> proposals,
     events |-> events, value |-> <<>>]

\* a view call that returns
Return(value) ==
    [err |-> "", proposalCount |-> proposalCount, proposals |-> proposals,
     events |-> events, value |-> value]

(* ----------------------------- modifiers ------------------------------ *)

\* validProposal that accepts the id one past the last proposal
validProposal_OffByOne(proposalId) == proposalId <= proposalCount

validProposal(proposalId) == proposalId < proposalCount

\* vote without the votingPeriod modifier
votingPeriod_Open(proposalId) == TRUE

\* votingPeriod that closes the window at endDate itself
votingPeriod_Strict(proposalId) ==
    blockTimestamp < proposals[proposalId].endDate

votingPeriod(proposalId) == blockTimestamp <= proposals[proposalId].endDate

(* ----------------------------- functions ------------------------------ *)

\* the id that ++proposalCount would give
nextProposalId_PreIncrement == proposalCount + 1

\* line 90: the value of proposalCount++, the count before the increment
nextProposalId == proposalCount

\* storeProposal that sets the executed flag
storeProposal_Executed(sender, title, description) ==
    LET proposalId == nextProposalId
        proposal == [proposals[proposalId] EXCEPT
                        !.id = proposalId,
                        !.title = title,
                        !.description = description,
                        !.proposer = sender,
                        !.endDate = blockTimestamp + VOTING_PERIOD,
                        !.votesFor = 0,
                        !.votesAgainst = 0,
                        !.totalVoters = 0,
                        !.isExecuted = TRUE]
    IN  [err |-> "",
         proposalCount |-> proposalCount + 1,
         proposals |-> [proposals EXCEPT ![proposalId] = proposal],
         events |-> Append(events, ProposalCreated(proposalId, title, sender,
                                                   proposal.endDate)),
         value |-> <<proposalId>>]

\* storeProposal that takes VOTING_PERIOD itself as the deadline
storeProposal_NoCreationTime(sender, title, description) ==
    LET proposalId == nextProposalId
        proposal == [proposals[proposalId] EXCEPT
                        !.id = proposalId,
                        !.title = title,
                        !.description = description,
                        !.proposer = sender,
                        !.endDate = VOTING_PERIOD,
                        !.votesFor = 0,
                        !.votesAgainst = 0,
                        !.totalVoters = 0,
                        !.isExecuted = FALSE]
    IN  [err |-> "",
         proposalCount |-> proposalCount + 1,
         proposals |-> [proposals EXCEPT ![proposalId] = proposal],
         events |-> Append(events, ProposalCreated(proposalId, title, sender,
                                                   proposal.endDate)),
         value |-> <<proposalId>>]

\* lines 90-105 of createProposal: the writes, the event and the return
storeProposal(sender, title, description) ==
    LET proposalId == nextProposalId
        proposal == [proposals[proposalId] EXCEPT
                        !.id = proposalId,
                        !.title = title,
                        !.description = description,
                        !.proposer = sender,
                        !.endDate = blockTimestamp + VOTING_PERIOD,
                        !.votesFor = 0,
                        !.votesAgainst = 0,
                        !.totalVoters = 0,
                        !.isExecuted = FALSE]
    IN  [err |-> "",
         proposalCount |-> proposalCount + 1,
         proposals |-> [proposals EXCEPT ![proposalId] = proposal],
         events |-> Append(events, ProposalCreated(proposalId, title, sender,
                                                   proposal.endDate)),
         value |-> <<proposalId>>]

\* createProposal without the second require
createProposal_NoDescriptionCheck(sender, title, description) ==
    IF ~(Len(title) > 0) THEN Revert("Title cannot be empty")
    ELSE storeProposal(sender, title, description)

\* createProposal that counts the proposal before it checks the description
\* and does not undo the count when the check fails
createProposal_NoRollback(sender, title, description) ==
    IF ~(Len(title) > 0) THEN Revert("Title cannot be empty")
    ELSE IF ~(Len(description) > 0)
         THEN [Revert("Description cannot be empty")
                  EXCEPT !.proposalCount = proposalCount + 1]
    ELSE storeProposal(sender, title, description)

createProposal(sender, title, description) ==
    IF ~(Len(title) > 0) THEN Revert("Title cannot be empty")
    ELSE IF ~(Len(description) > 0) THEN Revert("Description cannot be empty")
    ELSE storeProposal(sender, title, description)

\* a vote that forgets who has voted
alreadyVoted_Never(proposalId, sender) == FALSE

\* line 121: proposal.hasVoted[msg.sender]
alreadyVoted(proposalId, sender) == sender \in proposals[proposalId].hasVoted

\* castVote without totalVoters++
castVote_NoTotal(proposal, sender, support) ==
    LET marked == [proposal EXCEPT !.hasVoted = @ \cup {sender}]
    IN  IF support THEN [marked EXCEPT !.votesFor = @ + 1]
                   ELSE [marked EXCEPT !.votesAgainst = @ + 1]

\* castVote that counts a vote for in both counters
castVote_BothCounters(proposal, sender, support) ==
    LET marked == [proposal EXCEPT !.hasVoted = @ \cup {sender}]
        counted == [marked EXCEPT !.totalVoters = @ + 1]
    IN  IF support THEN [counted EXCEPT !.votesFor = @ + 1,
                                        !.votesAgainst = @ + 1]
                   ELSE [counted EXCEPT !.votesAgainst = @ + 1]

\* castVote cut after line 124: voter marked and totalVoters counted, the
\* vote itself not yet counted
castVote_StopsAfterTotal(proposal, sender, support) ==
    LET marked == [proposal EXCEPT !.hasVoted = @ \cup {sender}]
    IN  [marked EXCEPT !.totalVoters = @ + 1]

\* castVote that overwrites the voter set with the sender
castVote_ForgetOthers(proposal, sender, support) ==
    LET marked == [proposal EXCEPT !.hasVoted = {sender}]
        counted == [marked EXCEPT !.totalVoters = @ + 1]
    IN  IF support THEN [counted EXCEPT !.votesFor = @ + 1]
                   ELSE [counted EXCEPT !.votesAgainst = @ + 1]

\* lines 123-130 of vote: the writes to the proposal
castVote(proposal, sender, support) ==
    LET marked == [proposal EXCEPT !.hasVoted = @ \cup {sender}]
        counted == [marked EXCEPT !.totalVoters = @ + 1]
    IN  IF support THEN [counted EXCEPT !.votesFor = @ + 1]
                   ELSE [counted EXCEPT !.votesAgainst = @ + 1]

\* vote that logs the tallies as they were before the increment
vote_StaleTallies(sender, proposalId, support) ==
    IF ~validProposal(proposalId) THEN Revert("Proposal does not exist")
    ELSE IF ~votingPeriod(proposalId) THEN Revert("Voting period has ended")
    ELSE IF alreadyVoted(proposalId, sender)
         THEN Revert("Already voted on this proposal")
    ELSE
      LET proposal == castVote(proposals[proposalId], sender, support)
      IN  [err |-> "",
           proposalCount |-> proposalCount,
           proposals |-> [proposals EXCEPT ![proposalId] = proposal],
           events |-> Append(events, VoteCast(proposalId, sender, support,
                                 proposals[proposalId].votesFor,
                                 proposals[proposalId].votesAgainst)),
           value |-> <<>>]

vote(sender, proposalId, support) ==
    IF ~validProposal(proposalId) THEN Revert("Proposal does not exist")
    ELSE IF ~votingPeriod(proposalId) THEN Revert("Voting period has ended")
    ELSE IF alreadyVoted(proposalId, sender)
         THEN Revert("Already voted on this proposal")
    ELSE
      LET proposal == castVote(proposals[proposalId], sender, support)
      IN  [err |-> "",
           proposalCount |-> proposalCount,
           proposals |-> [proposals EXCEPT ![proposalId] = proposal],
           events |-> Append(events, VoteCast(proposalId, sender, support,
                                 proposal.votesFor, proposal.votesAgainst)),
           value |-> <<>>]

\* voteFor that reaches vote by a message call of the contract to itself:
\* msg.sender in vote is then address(this)
voteFor_ExternalCall(sender, proposalId) == vote(Self, proposalId, TRUE)

\* voteFor runs vote in the same call frame, so msg.sender is the caller
voteFor(sender, proposalId) == vote(sender, proposalId, TRUE)

voteAgainst(sender, proposalId) == vote(sender, proposalId, FALSE)

getProposal(proposalId) ==
    IF ~validProposal(proposalId) THEN Revert("Proposal does not exist")
    ELSE LET proposal == proposals[proposalId]
         IN  Return(<<proposal.id, proposal.title, proposal.description,
                      proposal.proposer, proposal.endDate, proposal.votesFor,
                      proposal.votesAgainst, proposal.totalVoters,
                      proposal.isExecuted>>)

\* ProposalStatus that asks for more than MIN_VOTES_TO_PASS votes
ProposalStatus_StrictQuorum(proposal, timestamp) ==
    IF proposal.isExecuted
    THEN IF proposal.votesFor > proposal.votesAgainst
         THEN "Passed" ELSE "Failed"
    ELSE IF timestamp > proposal.endDate
    THEN IF proposal.votesFor > proposal.votesAgainst
            /\ proposal.votesFor > MIN_VOTES_TO_PASS
         THEN "Passed" ELSE "Failed"
    ELSE "Active"

\* the body of getProposalStatus on one storage record at one block.timestamp
ProposalStatus(proposal, timestamp) ==
    IF proposal.isExecuted
    THEN IF proposal.votesFor > proposal.votesAgainst
         THEN "Passed" ELSE "Failed"
    ELSE IF timestamp > proposal.endDate
    THEN IF proposal.votesFor > proposal.votesAgainst
            /\ proposal.votesFor >= MIN_VOTES_TO_PASS
         THEN "Passed" ELSE "Failed"
    ELSE "Active"

getProposalStatus(proposalId) ==
    IF ~validProposal(proposalId) THEN Revert("Proposal does not exist")
    ELSE Return(<<ProposalStatus(proposals[proposalId], blockTimestamp)>>)

hasVoted(proposalId, voter) ==
    IF ~validProposal(proposalId) THEN Revert("Proposal does not exist")
    ELSE Return(<<voter \in proposals[proposalId].hasVoted>>)

getTotalProposals == Return(<<proposalCount>>)

(* --------------------------- useBlockchain ---------------------------- *)

\* length the list of proposals of the hook may reach
MaxHookProposals == 2
\* votes voteOnProposal may add to the tallies, over all proposals
MaxHookVotes == 2
\* connectWallet calls that may await the wallet at one time
MaxPending == 1

\* the value of `account` when no wallet is connected
null == [address |-> "null", balance |-> 0]

\* services/mockData: the simulation account and its history
MOCK_ACCOUNT == [address |-> "0xMOCK", balance |-> 1000]
MOCK_TRANSACTIONS ==
    <<[id |-> "0xmock", date |-> "earlier", action |-> "Deposit",
       amount |-> MOCK_ACCOUNT.balance,
       from |-> "0xExternal...Bank", to |-> MOCK_ACCOUNT.address,
       status |-> "Completed"]>>
MOCK_BALANCE_HISTORY == <<[name |-> "T+0", balance |-> MOCK_ACCOUNT.balance]>>
MOCK_TOKEN_HOLDERS == <<[name |-> "Treasury", value |-> 100]>>

\* accounts[0] as the wallet may answer eth_requestAccounts
WalletAddresses == {"0xA"}

\* the addresses `account` may hold
HookAddresses == WalletAddresses \cup {MOCK_ACCOUNT.address}

\* String.prototype.padStart with a one-character filler
RECURSIVE padStart(_, _, _)
padStart(str, targetLength, padString) ==
    IF Len(str) >= targetLength THEN str
    ELSE padStart(padString \o str, targetLength, padString)

\* line 150: the id createProposal gives when the list it sees has `length`
\* proposals
ProposalId(length) == "PIP-" \o padStart(ToString(length + 1), 3, "0")

\* Date.prototype.toLocaleDateString: the calendar day of a time in ms
toLocaleDateString(ms) == ms \div (24 * 60 * 60 * 1000)

\* the strings createProposal of the hook is called with
HookTitles == {"Lower fees"}
HookDescriptions == {"Reduce fees to 0.1%"}

\* Date.now() at the calls of createProposal
Nows == {0}

\* the ids voteOnProposal is called with: those createProposal can give
HookIds == {ProposalId(n) : n \in 0..(MaxHookProposals - 1)}

\* the lists services/mockData may export as MOCK_PROPOSALS: none, or one
\* proposal open for voting
MOCK_PROPOSALS ==
    {<<>>,
     <<[id |-> ProposalId(0), title |-> "Treasury diversification",
        description |-> "Move 10% of the treasury to stablecoins",
        proposer |-> MOCK_ACCOUNT.address, endDate |-> toLocaleDateString(0),
        votesFor |-> 0, votesAgainst |-> 0, status |-> "Active"]>>}

\* what the callbacks created by the latest render would capture: line 144
\* [votedProposalIds], line 162 [account, proposals.length]
Closure == [account |-> account, length |-> Len(hookProposals),
            votedProposalIds |-> votedProposalIds]

\* part_000 lines 326-328: the modal as first rendered, closed
TransactionModal ==
    modal = [isOpen |-> FALSE, transactionType |-> "Deposit", amount |-> <<>>,
             recipient |-> <<>>, error |-> "", calls |-> <<"render">>]

\* lines 13-18: the state of the hook at its first render
useBlockchain(mockProposals) ==
    /\ account = null
    /\ transactions = <<>>
    /\ hookProposals = mockProposals
    /\ balanceHistory = <<>>
    /\ tokenHolders = <<>>
    /\ votedProposalIds = {}
    /\ rendered = [account |-> null, length |-> Len(mockProposals),
                   votedProposalIds |-> {}]
    /\ pendingConnects = 0
    /\ hookRet = [call |-> <<"useBlockchain">>, alert |-> ""]
    /\ sessionVoted = {}
    /\ votesCast = [a \in HookAddresses |-> [i \in HookIds |-> 0]]

(* ------------------------------ actions ------------------------------- *)

\* one transaction or call: `call` names it, `r` is what the function did
Transact(call, r) ==
    /\ proposalCount' = r.proposalCount
    /\ proposals' = r.proposals
    /\ events' = r.events
    /\ ret' = [call |-> call, err |-> r.err, value |-> r.value]
    /\ UNCHANGED blockTimestamp
    /\ UNCHANGED hookVars
    /\ UNCHANGED modalVars

\* the bound on the log: a call that would log one event more is not taken
WithinLog(r) == r.events # events => Len(events) < MaxEvents

\* the contract as deployed
constructor ==
    /\ proposalCount = 0
    /\ proposals = [i \in ProposalIds |-> Proposal]
    /\ events = <<>>
    /\ blockTimestamp = 0
    /\ ret = [call |-> <<"constructor">>, err |-> "", value |-> <<>>]

Init ==
    /\ constructor
    /\ useBlockchain(<<>>)
    /\ TransactionModal

CreateProposal ==
    \E sender \in Voters, title \in Titles, description \in Descriptions :
        LET r == createProposal(sender, title, description)
        IN  /\ r.err = "" => proposalCount < MaxProposals
            /\ WithinLog(r)
            /\ Transact(<<"createProposal", sender, title, description>>, r)

Vote ==
    \E sender \in Voters, proposalId \in ProposalIds, support \in BOOLEAN :
        LET r == vote(sender, proposalId, support)
        IN  /\ WithinLog(r)
            /\ Transact(<<"vote", sender, proposalId, support>>, r)

VoteFor ==
    \E sender \in Voters, proposalId \in ProposalIds :
        LET r == voteFor(sender, proposalId)
        IN  /\ WithinLog(r)
            /\ Transact(<<"voteFor", sender, proposalId>>, r)

VoteAgainst ==
    \E sender \in Voters, proposalId \in ProposalIds :
        LET r == voteAgainst(sender, proposalId)
        IN  /\ WithinLog(r)
            /\ Transact(<<"voteAgainst", sender, proposalId>>, r)

GetProposal ==
    \E proposalId \in ProposalIds :
        LET r == getProposal(proposalId)
        IN  /\ Transact(<<"getProposal", proposalId>>, r)

GetProposalStatus ==
    \E proposalId \in ProposalIds :
        LET r == getProposalStatus(proposalId)
        IN  /\ Transact(<<"getProposalStatus", proposalId>>, r)

HasVoted ==
    \E proposalId \in ProposalIds, voter \in Voters :
        LET r == hasVoted(proposalId, voter)
        IN  /\ Transact(<<"hasVoted", proposalId, voter>>, r)

GetTotalProposals ==
    LET r == getTotalProposals
    IN  /\ Transact(<<"getTotalProposals">>, r)

\* a later block is mined: block.timestamp advances
NextBlock ==
    \E timestamp \in Timestamps :
        /\ timestamp > blockTimestamp
        /\ blockTimestamp' = timestamp
        /\ ret' = [call |-> <<"block">>, err |-> "", value |-> <<>>]
        /\ UNCHANGED <<proposals, proposalCount, events>>
        /\ UNCHANGED hookVars
        /\ UNCHANGED modalVars

Next ==
    \/ CreateProposal
    \/ Vote
    \/ VoteFor
    \/ VoteAgainst
    \/ GetProposal
    \/ GetProposalStatus
    \/ HasVoted
    \/ GetTotalProposals
    \/ NextBlock

Spec == Init /\ [][Next]_vars

(* ------------------------- a registry in use --------------------------- *)

\* the tallies with which the quorum rule is exercised
QuorumTallies == {0, 1, MIN_VOTES_TO_PASS - 1, MIN_VOTES_TO_PASS,
                  MIN_VOTES_TO_PASS + 1}

\* The registry after account 1 created proposal 0 in the deployment block,
\* accounts 1..f voted for it and accounts f+1..f+a against it in that block,
\* and the block one voting period later has been mined.
InitStatus ==
    \E f \in QuorumTallies, a \in QuorumTallies :
        /\ proposalCount = 1
        /\ proposals = [i \in ProposalIds |->
              IF i = 0
              THEN [id |-> 0, title |-> "Lower fees",
                    description |-> "Reduce fees to 0.1%", proposer |-> 1,
                    endDate |-> VOTING_PERIOD, votesFor |-> f,
                    votesAgainst |-> a, totalVoters |-> f + a,
                    isExecuted |-> FALSE, hasVoted |-> 1..(f + a)]
              ELSE Proposal]
        /\ events = <<ProposalCreated(0, "Lower fees", 1, VOTING_PERIOD)>>
                    \o [k \in 1..f |-> VoteCast(0, k, TRUE, k, 0)]
                    \o [k \in 1..a |-> VoteCast(0, f + k, FALSE, f, k)]
        /\ blockTimestamp = VOTING_PERIOD
        /\ ret = [call |-> <<"block">>, err |-> "", value |-> <<>>]
        /\ useBlockchain(<<>>)
        /\ TransactionModal

SpecStatus == InitStatus /\ [][Next]_vars

(* ------------------- performTransaction and the modal ------------------ *)

\* transactions the list of the hook may hold
MaxTransactions == 3
\* size the balance of the account may reach, above and below zero
MaxBalance == 2200

\* the strings of the modal's inputs, as sequences of characters
AmountInputs == {<<>>, <<"0">>, <<"-", "5">>, <<"6", "0", "0">>,
                 <<" ", "6", "0", "0", "x">>}
RecipientInputs == {<<>>, <<" ">>, <<"b", "o", "b", " ">>}

\* the arguments of direct calls of performTransaction
TransactionTypes == {"Deposit", "Withdraw", "Transfer"}
Amounts == {600}
Recipients == {"", "bob"}

\* Math.random().toString(16).slice(2, 12) and new Date().toLocaleString()
RandomIds == {"0x9f3a1c07be"}
Dates == {"now"}

\* the characters of a decimal numeral and their values
DigitValue == [c \in {"0", "1", "2", "3", "4", "5", "6", "7", "8", "9"} |->
                 CASE c = "0" -> 0 [] c = "1" -> 1 [] c = "2" -> 2
                   [] c = "3" -> 3 [] c = "4" -> 4 [] c = "5" -> 5
                   [] c = "6" -> 6 [] c = "7" -> 7 [] c = "8" -> 8
                   [] c = "9" -> 9]

\* a string from its characters
RECURSIVE Join(_)
Join(chars) == IF chars = <<>> THEN "" ELSE Head(chars) \o Join(Tail(chars))

RECURSIVE trimStart(_)
trimStart(chars) ==
    IF chars # <<>> /\ Head(chars) = " " THEN trimStart(Tail(chars)) ELSE chars

RECURSIVE trimEnd(_)
trimEnd(chars) ==
    IF chars # <<>> /\ chars[Len(chars)] = " "
    THEN trimEnd(SubSeq(chars, 1, Len(chars) - 1)) ELSE chars

\* String.prototype.trim
trim(chars) == trimEnd(trimStart(chars))

\* the value of the longest prefix of digits, continuing from `acc`
RECURSIVE digits(_, _)
digits(chars, acc) ==
    IF chars # <<>> /\ Head(chars) \in DOMAIN DigitValue
    THEN digits(Tail(chars), 10 * acc + DigitValue[Head(chars)])
    ELSE acc

\* parseFloat on strings without '.', exponent or "Infinity": leading
\* blanks are skipped, a sign is read, then the longest prefix of digits;
\* whatever follows is ignored, and no digit at all gives NaN
parseFloat(chars) ==
    LET str == trimStart(chars)
        signed == str # <<>> /\ Head(str) \in {"-", "+"}
        body == IF signed THEN Tail(str) ELSE str
    IN  IF body = <<>> \/ Head(body) \notin DOMAIN DigitValue
        THEN [isNaN |-> TRUE, value |-> 0]
        ELSE [isNaN |-> FALSE,
              value |-> IF signed /\ Head(str) = "-"
                        THEN 0 - digits(body, 0) ELSE digits(body, 0)]

(* ----------------------- callbacks of the hook ------------------------- *)

\* a call of a callback, or a render, and the alert it raised
Called(call, alert) == hookRet' = [call |-> call, alert |-> alert]

\* lines 26-32, 38-41, 47-50: the four updates every branch of
\* connectWallet makes
Connected(newAccount) ==
    /\ account' = newAccount
    /\ transactions' = MOCK_TRANSACTIONS
    /\ balanceHistory' = MOCK_BALANCE_HISTORY
    /\ tokenHolders' = MOCK_TOKEN_HOLDERS
    /\ sessionVoted' = {}
    /\ UNCHANGED <<hookProposals, votedProposalIds, rendered, votesCast>>

\* connectWallet up to its first suspension: without window.ethereum it
\* falls back to the mock account at once (lines 44-51), with it the call
\* awaits eth_requestAccounts (line 23)
ConnectWallet ==
    \E ethereum \in BOOLEAN :
        /\ IF ethereum
           THEN /\ pendingConnects < MaxPending
                /\ pendingConnects' = pendingConnects + 1
                /\ UNCHANGED <<account, transactions, hookProposals,
                               balanceHistory, tokenHolders, votedProposalIds,
                               rendered, sessionVoted, votesCast>>
           ELSE /\ Connected(MOCK_ACCOUNT)
                /\ UNCHANGED pendingConnects
        /\ Called(<<"connectWallet", ethereum>>, "")
        /\ UNCHANGED govVars
        /\ UNCHANGED modalVars

\* lines 23-33: the wallet answers with its accounts
ConnectResolved ==
    \E userAddress \in WalletAddresses :
        /\ pendingConnects > 0
        /\ pendingConnects' = pendingConnects - 1
        /\ Connected([address |-> userAddress, balance |-> MOCK_ACCOUNT.balance])
        /\ Called(<<"eth_requestAccounts", userAddress>>, "")
        /\ UNCHANGED govVars
        /\ UNCHANGED modalVars

\* lines 34-42: the wallet refuses, or the request fails
ConnectRejected ==
    /\ pendingConnects > 0
    /\ pendingConnects' = pendingConnects - 1
    /\ Connected(MOCK_ACCOUNT)
    /\ Called(<<"eth_requestAccounts">>, "Could not connect to MetaMask.")
    /\ UNCHANGED govVars
    /\ UNCHANGED modalVars

\* lines 55-61
DisconnectWallet ==
    /\ account' = null
    /\ transactions' = <<>>
    /\ balanceHistory' = <<>>
    /\ tokenHolders' = <<>>
    /\ votedProposalIds' = {}
    /\ sessionVoted' = {}
    /\ Called(<<"disconnectWallet">>, "")
    /\ UNCHANGED <<hookProposals, rendered, pendingConnects, votesCast>>
    /\ UNCHANGED govVars
    /\ UNCHANGED modalVars

\* lines 131-142: the updater voteOnProposal passes to setProposals
mapVote(prevProposals, proposalId, choice) ==
    [k \in 1..Len(prevProposals) |->
        LET p == prevProposals[k]
        IN  IF p.id = proposalId
            THEN IF choice = "For"
                 THEN [p EXCEPT !.votesFor = @ + 1]
                 ELSE [p EXCEPT !.votesAgainst = @ + 1]
            ELSE p]

\* the votes the list of proposals holds for an id, and in all
VotesOn(list, proposalId) ==
    LET RECURSIVE sum(_)
        sum(k) == IF k = 0 THEN 0
                  ELSE sum(k - 1)
                       + (IF list[k].id = proposalId
                          THEN list[k].votesFor + list[k].votesAgainst ELSE 0)
    IN  sum(Len(list))

RECURSIVE TotalVotes(_)
TotalVotes(list) ==
    IF list = <<>> THEN 0
    ELSE Head(list).votesFor + Head(list).votesAgainst + TotalVotes(Tail(list))

\* lines 125-144.  The test of line 126 reads the votedProposalIds of the
\* render that created the callback; the two updaters run on the latest
\* state.
VoteOnProposal ==
    \E proposalId \in HookIds, choice \in {"For", "Against"} :
        /\ IF proposalId \in rendered.votedProposalIds
           THEN /\ Called(<<"voteOnProposal", proposalId, choice>>,
                          "You have already voted on this proposal.")
                /\ UNCHANGED <<hookProposals, votedProposalIds, votesCast>>
           ELSE LET voted == mapVote(hookProposals, proposalId, choice)
                    added == TotalVotes(voted) - TotalVotes(hookProposals)
                IN  /\ TotalVotes(voted) <= MaxHookVotes
                    /\ hookProposals' = voted
                    /\ votedProposalIds' = votedProposalIds \cup {proposalId}
                    /\ votesCast' =
                          IF account = null THEN votesCast
                          ELSE [votesCast EXCEPT
                                  ![account.address][proposalId] = @ + added]
                    /\ Called(<<"voteOnProposal", proposalId, choice>>, "")
        /\ sessionVoted' = IF account = null THEN sessionVoted
                           ELSE sessionVoted \cup {proposalId}
        /\ UNCHANGED <<account, transactions, balanceHistory, tokenHolders,
                       rendered, pendingConnects>>
        /\ UNCHANGED govVars
        /\ UNCHANGED modalVars

\* lines 146-162.  `account` and proposals.length are those of the render
\* that created the callback.
HookCreateProposal ==
    \E title \in HookTitles, description \in HookDescriptions, now \in Nows :
        /\ IF rendered.account = null
           THEN UNCHANGED hookProposals
           ELSE LET newProposal ==
                      [id |-> ProposalId(rendered.length), title |-> title,
                       description |-> description,
                       proposer |-> rendered.account.address,
                       endDate |-> toLocaleDateString(
                                      now + 14 * 24 * 60 * 60 * 1000),
                       votesFor |-> 0, votesAgainst |-> 0,
                       status |-> "Active"]
                IN  /\ Len(hookProposals) < MaxHookProposals
                    /\ hookProposals' = <<newProposal>> \o hookProposals
        /\ Called(<<"createProposal", title, description>>, "")
        /\ UNCHANGED <<account, transactions, balanceHistory, tokenHolders,
                       votedProposalIds, rendered, pendingConnects,
                       sessionVoted, votesCast>>
        /\ UNCHANGED govVars
        /\ UNCHANGED modalVars

\* React renders the component again: the callbacks are created anew
\* wherever a dependency changed
Render ==
    /\ rendered # Closure
    /\ rendered' = Closure
    /\ Called(<<"render">>, "")
    /\ UNCHANGED <<account, transactions, hookProposals, balanceHistory,
                   tokenHolders, votedProposalIds, pendingConnects,
                   sessionVoted, votesCast>>
    /\ UNCHANGED govVars
    /\ UNCHANGED modalVars

InitHook ==
    /\ constructor
    /\ \E mockProposals \in MOCK_PROPOSALS : useBlockchain(mockProposals)
    /\ TransactionModal

\* the callbacks may be called any number of times between two renders
NextHook ==
    \/ ConnectWallet
    \/ ConnectResolved
    \/ ConnectRejected
    \/ DisconnectWallet
    \/ VoteOnProposal
    \/ HookCreateProposal
    \/ Render

SpecHook == InitHook /\ [][NextHook]_vars

\* every call finds the callbacks of a render that has seen all updates
Fresh == rendered = Closure

NextHookRendered ==
    \/ Fresh /\ ConnectWallet
    \/ Fresh /\ ConnectResolved
    \/ Fresh /\ ConnectRejected
    \/ Fresh /\ DisconnectWallet
    \/ Fresh /\ VoteOnProposal
    \/ Fresh /\ HookCreateProposal
    \/ Render

SpecHookRendered == InitHook /\ [][NextHookRendered]_vars

(* ------------------------- performTransaction -------------------------- *)

\* lines 70-112: the transactions a call builds for the account it sees
transactionsToAdd(acct, type, amount, recipient, id, newDate) ==
    LET tx(action, from, to) ==
            [id |-> id, date |-> newDate, action |-> action,
             amount |-> amount, from |-> from, to |-> to,
             status |-> "Completed"]
    IN  IF type = "Deposit"
        THEN <<tx("Deposit", "0xExternal...Bank", acct.address)>>
        ELSE IF type = "Withdraw"
        THEN <<tx("Withdrawal", acct.address, "0xExternal...Bank")>>
        ELSE IF type = "Transfer" /\ recipient # ""
        THEN <<tx("Transfer Out", acct.address, recipient),
               tx("Transfer In", acct.address, recipient)>>
        ELSE <<>>

\* newBalance that adds to or takes from nothing: the amount alone
newBalance_ForgetsBalance(acct, type, amount, recipient) ==
    IF type = "Deposit" THEN amount ELSE 0 - amount

\* lines 66, 71, 82, 93: the balance a call computes from the account it sees
newBalance(acct, type, amount, recipient) ==
    IF type = "Deposit" THEN acct.balance + amount
    ELSE IF type = "Withdraw" THEN acct.balance - amount
    ELSE IF type = "Transfer" /\ recipient # "" THEN acct.balance - amount
    ELSE acct.balance

\* lines 63-123.  `account` of lines 64-66 is the one of the render that
\* created the callback (dependency [account]); the three updaters of lines
\* 118-120 run on the latest state.
performTransaction(type, amount, recipient) ==
    \E id \in RandomIds, newDate \in Dates :
        LET acct == rendered.account
            toAdd == IF acct = null THEN <<>>
                     ELSE transactionsToAdd(acct, type, amount, recipient,
                                            id, newDate)
            balance == newBalance(acct, type, amount, recipient)
        IN  IF Len(toAdd) = 0
            THEN UNCHANGED <<account, transactions, balanceHistory>>
            ELSE /\ Len(toAdd) + Len(transactions) <= MaxTransactions
                 /\ balance \in (0 - MaxBalance)..MaxBalance
                 /\ account' = IF account = null THEN null
                               ELSE [account EXCEPT !.balance = balance]
                 /\ transactions' = toAdd \o transactions
                 /\ balanceHistory' =
                       Append(balanceHistory,
                              [name |-> "T+" \o ToString(Len(balanceHistory) - 4),
                               balance |-> balance])

\* a call of the callback the hook returns
PerformTransaction ==
    \E type \in TransactionTypes, amount \in Amounts, recipient \in Recipients :
        /\ performTransaction(type, amount, recipient)
        /\ Called(<<"performTransaction", type, amount, recipient>>, "")
        /\ UNCHANGED <<hookProposals, tokenHolders, votedProposalIds, rendered,
                       pendingConnects, sessionVoted, votesCast>>
        /\ UNCHANGED govVars
        /\ UNCHANGED modalVars

(* -------------------------- TransactionModal --------------------------- *)

\* the prop currentBalance: the balance of the account the page rendered
currentBalance == IF rendered.account = null THEN 0 ELSE rendered.account.balance

\* the page opens the modal for one kind of transaction
OpenModal ==
    \E type \in TransactionTypes :
        /\ ~modal.isOpen
        /\ modal' = [modal EXCEPT !.isOpen = TRUE, !.transactionType = type,
                                  !.calls = <<"open">>]
        /\ UNCHANGED hookVars
        /\ UNCHANGED govVars

\* part_000 line 364: onChange of the amount input
SetAmount ==
    \E value \in AmountInputs :
        /\ modal.isOpen
        /\ modal' = [modal EXCEPT !.amount = value, !.calls = <<"onChange">>]
        /\ UNCHANGED hookVars
        /\ UNCHANGED govVars

\* part_000 line 378: onChange of the recipient input, shown for Transfer
SetRecipient ==
    \E value \in RecipientInputs :
        /\ modal.isOpen
        /\ modal.transactionType = "Transfer"
        /\ modal' = [modal EXCEPT !.recipient = value,
                                  !.calls = <<"onChange">>]
        /\ UNCHANGED hookVars
        /\ UNCHANGED govVars

\* the error handleConfirm finds, "" when it finds none, with no test of
\* the balance
validate_NoBalanceCheck(type, numAmount, recipient, balance) ==
    IF numAmount.isNaN \/ numAmount.value <= 0
    THEN "Please enter a valid amount."
    ELSE IF type = "Transfer" /\ trim(recipient) = <<>>
    THEN "Please enter a recipient."
    ELSE ""

\* part_000 lines 334-345: the error handleConfirm finds, "" when none
validate(type, numAmount, recipient, balance) ==
    IF numAmount.isNaN \/ numAmount.value <= 0
    THEN "Please enter a valid amount."
    ELSE IF type \in {"Withdraw", "Transfer"} /\ numAmount.value > balance
    THEN "Insufficient balance."
    ELSE IF type = "Transfer" /\ trim(recipient) = <<>>
    THEN "Please enter a recipient."
    ELSE ""

\* part_000 lines 332-349: the Confirm button.  onConfirm is
\* performTransaction of the render the modal belongs to, onClose closes it.
HandleConfirm ==
    LET numAmount == parseFloat(modal.amount)
        error == validate(modal.transactionType, numAmount, modal.recipient,
                          currentBalance)
    IN  /\ modal.isOpen
        /\ IF error # ""
           THEN /\ modal' = [modal EXCEPT !.error = error,
                                          !.calls = <<"handleConfirm">>]
                /\ UNCHANGED hookVars
           ELSE /\ modal' = [modal EXCEPT !.error = "", !.isOpen = FALSE,
                                          !.calls = <<"handleConfirm",
                                                      "onConfirm", "onClose">>]
                /\ performTransaction(modal.transactionType, numAmount.value,
                                      Join(modal.recipient))
                /\ Called(<<"performTransaction", modal.transactionType,
                            numAmount.value, Join(modal.recipient)>>, "")
                /\ UNCHANGED <<hookProposals, tokenHolders, votedProposalIds,
                               rendered, pendingConnects, sessionVoted,
                               votesCast>>
        /\ UNCHANGED govVars

\* part_000 line 389: the Cancel button
CloseModal ==
    /\ modal.isOpen
    /\ modal' = [modal EXCEPT !.isOpen = FALSE,
                              !.calls = <<"cancel", "onClose">>]
    /\ UNCHANGED hookVars
    /\ UNCHANGED govVars

\* the account side of the hook, with the callbacks called any number of
\* times between two renders
NextBank ==
    \/ ConnectWallet
    \/ ConnectResolved
    \/ ConnectRejected
    \/ DisconnectWallet
    \/ PerformTransaction
    \/ Render

SpecBank == InitHook /\ [][NextBank]_vars

\* the account side of the hook with the modal on the page: the user's
\* clicks and keystrokes, and calls of the callbacks, each finding the
\* latest render
NextModal ==
    \/ Fresh /\ ConnectWallet
    \/ Fresh /\ ConnectResolved
    \/ Fresh /\ ConnectRejected
    \/ Fresh /\ DisconnectWallet
    \/ Fresh /\ PerformTransaction
    \/ Fresh /\ OpenModal
    \/ Fresh /\ SetAmount
    \/ Fresh /\ SetRecipient
    \/ Fresh /\ HandleConfirm
    \/ Fresh /\ CloseModal
    \/ Render

SpecModal == InitHook /\ [][NextModal]_vars

(* ------------------------------ claims -------------------------------- *)

VoteOps == {"vote", "voteFor", "voteAgainst"}

IdOps == VoteOps \cup {"getProposal", "getProposalStatus", "hasVoted"}

\* the proposal id a call passes
CallProposalId(c) == IF c.call[1] \in VoteOps THEN c.call[3] ELSE c.call[2]

Tallies(proposal) ==
    <<proposal.votesFor, proposal.votesAgainst, proposal.totalVoters>>

\* C1: in every reachable state, every existing proposal has
\* votesFor + votesAgainst = totalVoters (after createProposal and after every
\* successful or failed vote, voteFor or voteAgainst).
C1_TalliesSum ==
    \A i \in ProposalIds :
        validProposal(i) =>
            proposals[i].votesFor + proposals[i].votesAgainst
                = proposals[i].totalVoters

\* a proposal with a vote for and a vote against, right after a failed vote
C1_Witness ==
    \E i \in ProposalIds :
        /\ validProposal(i)
        /\ proposals[i].votesFor = 1
        /\ proposals[i].votesAgainst = 1
        /\ ret.call[1] \in VoteOps
        /\ ret.err # ""

\* C2 as stated: a second vote by the same identity on the same proposal
\* always fails with "Already voted on this proposal", whatever the support
\* and the time of the call, and leaves the tallies unchanged.
C2_AlwaysDuplicateError ==
    [][LET c == ret'
       IN  (/\ c.call[1] \in VoteOps
            /\ validProposal(c.call[3])
            /\ c.call[2] \in proposals[c.call[3]].hasVoted)
           => /\ c.err = "Already voted on this proposal"
              /\ Tallies(proposals'[c.call[3]]) = Tallies(proposals[c.call[3]])
      ]_vars

\* C2 amended: a second vote by the same identity on the same proposal always
\* fails and leaves the tallies unchanged; the error is "Already voted on this
\* proposal" while block.timestamp <= endDate and "Voting period has ended"
\* once block.timestamp > endDate.
C2_SecondVoteFails ==
    [][LET c == ret'
       IN  (/\ c.call[1] \in VoteOps
            /\ validProposal(c.call[3])
            /\ c.call[2] \in proposals[c.call[3]].hasVoted)
           => /\ c.err = IF blockTimestamp <= proposals[c.call[3]].endDate
                         THEN "Already voted on this proposal"
                         ELSE "Voting period has ended"
              /\ Tallies(proposals'[c.call[3]]) = Tallies(proposals[c.call[3]])
      ]_vars

\* a second vote of a voter was rejected as a duplicate, with the opposite
\* support to the vote that was counted
C2_Witness ==
    /\ ret.call[1] = "vote"
    /\ ret.err = "Already voted on this proposal"
    /\ ret.call[4] = TRUE
    /\ proposals[ret.call[3]].votesFor = 0
    /\ proposals[ret.call[3]].votesAgainst = 1

\* C3: a vote on an existing proposal at block.timestamp > endDate always
\* fails with "Voting period has ended" and leaves the tallies unchanged; at
\* block.timestamp = endDate the vote is not rejected for that reason.
C3_VotingClosed ==
    [][LET c == ret'
       IN  (c.call[1] \in VoteOps /\ validProposal(c.call[3]))
           => /\ blockTimestamp > proposals[c.call[3]].endDate
                 => /\ c.err = "Voting period has ended"
                    /\ Tallies(proposals'[c.call[3]])
                           = Tallies(proposals[c.call[3]])
              /\ blockTimestamp = proposals[c.call[3]].endDate
                 => c.err # "Voting period has ended"
      ]_vars

\* a voter who had not voted was turned away after endDate
C3_Witness ==
    /\ ret.call[1] \in VoteOps
    /\ ret.err = "Voting period has ended"
    /\ ret.call[2] \notin proposals[ret.call[3]].hasVoted
    /\ blockTimestamp = proposals[ret.call[3]].endDate + 1

\* C4: createProposal with an empty title or an empty description fails with
\* the validation error and leaves proposalCount, every proposal and the log
\* unchanged.
C4_EmptyRejected ==
    [][LET c == ret'
       IN  (c.call[1] = "createProposal" /\ (c.call[3] = "" \/ c.call[4] = ""))
           => /\ c.err = IF c.call[3] = "" THEN "Title cannot be empty"
                         ELSE "Description cannot be empty"
              /\ UNCHANGED <<proposalCount, proposals, events>>
      ]_vars

\* an empty description was rejected in a registry that holds a proposal
C4_Witness ==
    /\ ret.call[1] = "createProposal"
    /\ ret.call[3] # ""
    /\ ret.call[4] = ""
    /\ ret.err = "Description cannot be empty"
    /\ proposalCount = 1

\* C5: proposal ids are dense, 0-based and never reused: the slots below
\* proposalCount hold the proposals with id = index, no slot from
\* proposalCount on was written, the k-th ProposalCreated event carries id
\* k - 1, and a successful createProposal returns proposalCount - 1.
C5_DenseIds ==
    /\ \A i \in ProposalIds :
          IF i < proposalCount
          THEN proposals[i].id = i /\ proposals[i].title # ""
          ELSE proposals[i] = Proposal
    /\ LET created == SelectSeq(events, LAMBDA e : e.name = "ProposalCreated")
       IN  /\ Len(created) = proposalCount
           /\ \A k \in 1..Len(created) : created[k].proposalId = k - 1
    /\ (ret.call[1] = "createProposal" /\ ret.err = "")
          => ret.value = <<proposalCount - 1>>

\* the second createProposal returned id 1
C5_Witness ==
    /\ ret.call[1] = "createProposal"
    /\ ret.err = ""
    /\ ret.value = <<1>>
    /\ proposalCount = 2

\* the status C6 states for a proposal record at a call time
C6_Expected(proposal, timestamp) ==
    IF proposal.isExecuted
    THEN IF proposal.votesFor > proposal.votesAgainst
         THEN "Passed" ELSE "Failed"
    ELSE IF timestamp > proposal.endDate
    THEN IF proposal.votesFor > proposal.votesAgainst
            /\ proposal.votesFor >= 1000
         THEN "Passed" ELSE "Failed"
    ELSE "Active"

\* C6: getProposalStatus(id) of an existing proposal returns, at the time of
\* the call: if isExecuted, Passed when votesFor > votesAgainst, else Failed;
\* else if now > endDate, Passed exactly when votesFor > votesAgainst and
\* votesFor >= 1000, otherwise Failed; else Active.  So 1000 for / 1 against
\* is Passed, 999 for / 1 against is Failed, a tie is Failed, and at
\* now = endDate the status is Active.  The body of the function is compared
\* on every stored record with isExecuted false as stored and set to true.
C6_StatusRule ==
    /\ \A i \in ProposalIds :
          validProposal(i) =>
             \A executed \in BOOLEAN :
                LET p == [proposals[i] EXCEPT !.isExecuted = executed]
                    status == ProposalStatus(p, blockTimestamp)
                IN  /\ status = C6_Expected(p, blockTimestamp)
                    /\ (~executed /\ blockTimestamp > p.endDate
                          /\ p.votesFor = 1000 /\ p.votesAgainst = 1)
                       => status = "Passed"
                    /\ (~executed /\ blockTimestamp > p.endDate
                          /\ p.votesFor = 999 /\ p.votesAgainst = 1)
                       => status = "Failed"
                    /\ (blockTimestamp > p.endDate
                          /\ p.votesFor = p.votesAgainst)
                       => status = "Failed"
                    /\ (~executed /\ blockTimestamp = p.endDate)
                       => status = "Active"
    /\ (ret.call[1] = "getProposalStatus" /\ ret.err = "")
          => ret.value
               = <<C6_Expected(proposals[ret.call[2]], blockTimestamp)>>

\* getProposalStatus returned Passed for 1000 votes for and 1 against
C6_Witness ==
    /\ ret.call[1] = "getProposalStatus"
    /\ ret.err = ""
    /\ ret.value = <<"Passed">>
    /\ proposals[ret.call[2]].votesFor = 1000
    /\ proposals[ret.call[2]].votesAgainst = 1
    /\ blockTimestamp > proposals[ret.call[2]].endDate

\* C7: vote, voteFor, voteAgainst, getProposal, getProposalStatus and
\* hasVoted fail with "Proposal does not exist" whenever
\* proposalId >= proposalCount; for the votes this is the error reported
\* (not voting-closed, not duplicate-vote), and the registry is unchanged.
C7_NotFound ==
    [][LET c == ret'
       IN  (c.call[1] \in IdOps /\ CallProposalId(c) >= proposalCount)
           => /\ c.err = "Proposal does not exist"
              /\ UNCHANGED <<proposalCount, proposals, events>>
      ]_vars

\* a vote on an id that does not exist, at a time later than the endDate (0)
\* of the unwritten slot, was rejected as not found
C7_Witness ==
    /\ ret.call[1] \in VoteOps
    /\ ret.call[3] >= proposalCount
    /\ proposalCount >= 1
    /\ blockTimestamp > proposals[ret.call[3]].endDate
    /\ ret.err = "Proposal does not exist"

\* C8: whenever createProposal, vote, voteFor or voteAgainst fails, the
\* registry after the call (proposalCount, every proposal with its voter
\* set, the events) is the registry before the call.
C8_AllOrNothing ==
    [][LET c == ret'
       IN  (c.call[1] \in VoteOps \cup {"createProposal"} /\ c.err # "")
           => UNCHANGED <<proposalCount, proposals, events>>
      ]_vars

\* a createProposal failed in a registry with a proposal and a vote
C8_Witness ==
    /\ ret.call[1] = "createProposal"
    /\ ret.err # ""
    /\ proposalCount >= 1
    /\ Len(events) >= 2

\* the identities a vote can be recorded under
Addresses == Voters \cup {Self}

\* the positions in the log of the VoteCast events of voter v on proposal i
\* with the given support
CastBy(i, v, support) ==
    {k \in 1..Len(events) :
        /\ events[k].name = "VoteCast"
        /\ events[k].proposalId = i
        /\ events[k].voter = v
        /\ events[k].support = support}

\* C9: for every proposal, totalVoters is the number of distinct identities v
\* with hasVoted(proposalId, v) true, and each of them contributed exactly 1
\* to exactly one of votesFor / votesAgainst: it cast exactly one vote, and
\* votesFor and votesAgainst count the identities that voted for and against.
C9_VotersCounted ==
    \A i \in ProposalIds :
        validProposal(i) =>
            LET voted == {v \in Addresses : hasVoted(i, v).value = <<TRUE>>}
            IN  /\ proposals[i].totalVoters = Cardinality(voted)
                /\ \A v \in voted :
                      Cardinality(CastBy(i, v, TRUE))
                          + Cardinality(CastBy(i, v, FALSE)) = 1
                /\ \A v \in Addresses \ voted :
                      CastBy(i, v, TRUE) \cup CastBy(i, v, FALSE) = {}
                /\ proposals[i].votesFor
                      = Cardinality({v \in voted : CastBy(i, v, TRUE) # {}})
                /\ proposals[i].votesAgainst
                      = Cardinality({v \in voted : CastBy(i, v, FALSE) # {}})

\* two identities voted on a proposal, one for and one against, and hasVoted
\* was asked about one of them
C9_Witness ==
    /\ ret.call[1] = "hasVoted"
    /\ ret.value = <<TRUE>>
    /\ proposals[ret.call[2]].totalVoters = 2
    /\ proposals[ret.call[2]].votesFor = 1
    /\ proposals[ret.call[2]].votesAgainst = 1

C11_NeverExecuted ==
    /\ \A i \in ProposalIds : ~proposals[i].isExecuted
    /\ (ret.call[1] = "getProposalStatus" /\ ret.err = "")
          => LET p == proposals[ret.call[2]]
             IN  /\ ~p.isExecuted
                 /\ ret.value[1] = "Active" <=> blockTimestamp <= p.endDate
                 /\ ret.value[1] = "Passed"
                       <=> /\ blockTimestamp > p.endDate
                           /\ p.votesFor > p.votesAgainst
                           /\ p.votesFor >= MIN_VOTES_TO_PASS

\* getProposalStatus answered Failed for a closed proposal with more votes
\* for than against: the isExecuted branch would have answered Passed
C11_Witness ==
    /\ ret.call[1] = "getProposalStatus"
    /\ ret.err = ""
    /\ ret.value = <<"Failed">>
    /\ proposals[ret.call[2]].votesFor > proposals[ret.call[2]].votesAgainst
    /\ blockTimestamp > proposals[ret.call[2]].endDate

\* the support a vote call passes
CallSupport(c) ==
    IF c.call[1] = "vote" THEN c.call[4] ELSE c.call[1] = "voteFor"

\* C12: a successful vote(id, support) by v adds v to the voter set of
\* proposal id, adds 1 to totalVoters and 1 to votesFor (support) or to
\* votesAgainst (otherwise), and changes nothing else: not the other counter,
\* not id, title, description, proposer, endDate, isExecuted of the proposal,
\* not proposalCount, not any other proposal.
C12_VoteFrame ==
    [][LET c == ret'
       IN  (c.call[1] \in VoteOps /\ c.err = "")
           => LET i == c.call[3]
                  v == c.call[2]
                  p == proposals[i]
                  q == proposals'[i]
              IN  /\ v \notin p.hasVoted
                  /\ q.hasVoted = p.hasVoted \cup {v}
                  /\ q.totalVoters = p.totalVoters + 1
                  /\ IF CallSupport(c)
                     THEN /\ q.votesFor = p.votesFor + 1
                          /\ q.votesAgainst = p.votesAgainst
                     ELSE /\ q.votesAgainst = p.votesAgainst + 1
                          /\ q.votesFor = p.votesFor
                  /\ <<q.id, q.title, q.description, q.proposer, q.endDate,
                       q.isExecuted>>
                       = <<p.id, p.title, p.description, p.proposer,
                           p.endDate, p.isExecuted>>
                  /\ proposalCount' = proposalCount
                  /\ \A j \in ProposalIds \ {i} : proposals'[j] = proposals[j]
      ]_vars

\* a vote was counted on the first of two proposals
C12_Witness ==
    /\ ret.call[1] \in VoteOps
    /\ ret.err = ""
    /\ ret.call[3] = 0
    /\ proposalCount = 2

\* C13: a successful createProposal at time now stores, in the slot of the
\* returned id, endDate = now + 14 days, zero counters, isExecuted false, an
\* empty voter set and proposer = the caller, and leaves every other proposal
\* unchanged; title, description, proposer and endDate of an existing
\* proposal are the same after every step.
C13_CreateFrame ==
    [][/\ LET c == ret'
          IN  (c.call[1] = "createProposal" /\ c.err = "")
              => LET i == c.value[1]
                 IN  /\ proposals'[i]
                           = [id |-> i, title |-> c.call[3],
                              description |-> c.call[4],
                              proposer |-> c.call[2],
                              endDate |-> blockTimestamp + 14 * 24 * 60 * 60,
                              votesFor |-> 0, votesAgainst |-> 0,
                              totalVoters |-> 0, isExecuted |-> FALSE,
                              hasVoted |-> {}]
                     /\ \A j \in ProposalIds \ {i} :
                           proposals'[j] = proposals[j]
       /\ \A i \in ProposalIds :
             validProposal(i)
             => <<proposals'[i].title, proposals'[i].description,
                  proposals'[i].proposer, proposals'[i].endDate>>
                  = <<proposals[i].title, proposals[i].description,
                      proposals[i].proposer, proposals[i].endDate>>
      ]_vars

\* a second proposal was created one voting period after the first, which
\* had a vote by then
C13_Witness ==
    /\ ret.call[1] = "createProposal"
    /\ ret.err = ""
    /\ proposalCount = 2
    /\ proposals[0].totalVoters = 1
    /\ proposals[1].endDate = proposals[0].endDate + VOTING_PERIOD
    /\ proposals[1].proposer # proposals[0].proposer

\* C14: across every step proposalCount does not decrease, no proposal's
\* votesFor, votesAgainst or totalVoters decreases, and an identity that has
\* voted on a proposal stays in its voter set.
C14_OnlyGrows ==
    [][/\ proposalCount' >= proposalCount
       /\ \A i \in ProposalIds :
             /\ proposals'[i].votesFor >= proposals[i].votesFor
             /\ proposals'[i].votesAgainst >= proposals[i].votesAgainst
             /\ proposals'[i].totalVoters >= proposals[i].totalVoters
             /\ proposals[i].hasVoted \subseteq proposals'[i].hasVoted
             /\ validProposal(i) => proposals'[i].id = proposals[i].id
      ]_vars

\* a second identity voted on a proposal
C14_Witness ==
    /\ ret.call[1] = "vote"
    /\ ret.err = ""
    /\ proposals[ret.call[3]].hasVoted = Voters
    /\ proposals[ret.call[3]].votesAgainst = 2

\* the answer of getProposalStatus for a stored proposal at a time
StatusOf(i, timestamp, store) == ProposalStatus(store[i], timestamp)

\* C15: with block.timestamp non-decreasing, once the status of a proposal
\* is Passed or Failed it is the same status after every step (it never
\* returns to Active and never switches), its tallies no longer change, and
\* every vote on it is rejected; the status leaves Active by the clock alone
\* (the witness).
C15_StatusFinal ==
    [][\A i \in ProposalIds :
          (validProposal(i) /\ StatusOf(i, blockTimestamp, proposals) # "Active")
          => /\ StatusOf(i, blockTimestamp', proposals')
                   = StatusOf(i, blockTimestamp, proposals)
             /\ Tallies(proposals'[i]) = Tallies(proposals[i])
             /\ (ret'.call[1] \in VoteOps /\ ret'.call[3] = i)
                   => ret'.err = "Voting period has ended"
             /\ (ret'.call = <<"getProposalStatus", i>>)
                   => ret'.value
                        = <<StatusOf(i, blockTimestamp, proposals)>>
      ]_vars

\* the block after endDate was mined and nothing was called since: the
\* proposal, Active at endDate, is now Passed
C15_Witness ==
    /\ ret.call[1] = "block"
    /\ blockTimestamp = proposals[0].endDate + 1
    /\ StatusOf(0, proposals[0].endDate, proposals) = "Active"
    /\ StatusOf(0, blockTimestamp, proposals) = "Passed"

\* C16: a successful createProposal appends exactly one ProposalCreated with
\* the new id, the title, the creator and the stored endDate; a successful
\* vote appends exactly one VoteCast with the proposal id, the voter, the
\* support and the tallies after the increment; a failed call and a view
\* append nothing.
C16_Notifications ==
    [][LET c == ret'
       IN  IF c.call[1] = "createProposal" /\ c.err = ""
           THEN events' = Append(events,
                    [name |-> "ProposalCreated", proposalId |-> c.value[1],
                     title |-> c.call[3], proposer |-> c.call[2],
                     endDate |-> proposals'[c.value[1]].endDate])
           ELSE IF c.call[1] \in VoteOps /\ c.err = ""
           THEN events' = Append(events,
                    [name |-> "VoteCast", proposalId |-> c.call[3],
                     voter |-> c.call[2], support |-> CallSupport(c),
                     votesFor |-> proposals'[c.call[3]].votesFor,
                     votesAgainst |-> proposals'[c.call[3]].votesAgainst])
           ELSE events' = events
      ]_vars

\* the log ends with the VoteCast of a second vote, carrying both tallies
C16_Witness ==
    /\ ret.call[1] \in VoteOps
    /\ ret.err = ""
    /\ events[Len(events)].name = "VoteCast"
    /\ events[Len(events)].votesFor = 1
    /\ events[Len(events)].votesAgainst = 1
    /\ events[Len(events)].support = TRUE

\* C17: a call runs as one transaction and vote calls no other contract, so
\* the states between two calls are the only ones a read can observe. In
\* each of them every stored proposal has votesFor + votesAgainst =
\* totalVoters = the number of marked voters, every id below proposalCount
\* is fully stored, and each read returns the values of that state.
C17_ConsistentReads ==
    /\ \A i \in ProposalIds :
          /\ proposals[i].votesFor + proposals[i].votesAgainst
                = proposals[i].totalVoters
          /\ Cardinality(proposals[i].hasVoted) = proposals[i].totalVoters
          /\ validProposal(i) => proposals[i].id = i /\ proposals[i].title # ""
    /\ (ret.call[1] = "getProposal" /\ ret.err = "")
          => LET p == proposals[ret.call[2]]
             IN  /\ ret.value[6] + ret.value[7] = ret.value[8]
                 /\ ret.value = <<p.id, p.title, p.description, p.proposer,
                                  p.endDate, p.votesFor, p.votesAgainst,
                                  p.totalVoters, p.isExecuted>>
    /\ (ret.call[1] = "getProposalStatus" /\ ret.err = "")
          => ret.value = <<ProposalStatus(proposals[ret.call[2]], blockTimestamp)>>
    /\ (ret.call[1] = "hasVoted" /\ ret.err = "")
          => /\ ret.value = <<ret.call[3] \in proposals[ret.call[2]].hasVoted>>
             /\ ret.value = <<TRUE>>
                   => \E k \in 1..Len(events) :
                         /\ events[k].name = "VoteCast"
                         /\ events[k].proposalId = ret.call[2]
                         /\ events[k].voter = ret.call[3]
    /\ (ret.call[1] = "getTotalProposals")
          => ret.value = <<proposalCount>>

\* getProposal read a proposal after two votes, one each way
C17_Witness ==
    /\ ret.call[1] = "getProposal"
    /\ ret.err = ""
    /\ ret.value[6] = 1
    /\ ret.value[7] = 1
    /\ ret.value[8] = 2

\* the latest call was a successful vote by u on proposal i
JustVoted(c, u, i) ==
    /\ c.call[1] \in VoteOps
    /\ c.err = ""
    /\ c.call[2] = u
    /\ c.call[3] = i

\* C18: transactions are serialized, in either order. A vote on an open
\* proposal succeeds exactly when its sender is not yet in the voter set.
\* Of two votes by the same identity that follow each other in one block,
\* the first succeeds and the second fails with "Already voted on this
\* proposal" without changing totalVoters (so it grows by exactly 1); of two
\* by different identities that had not voted, both succeed, totalVoters
\* grows by 1 each time and both identities are in the voter set.
C18_VotesSerialized ==
    [][\A u \in Addresses, i \in ProposalIds :
          (ret'.call[1] \in VoteOps /\ ret'.call[3] = i
             /\ validProposal(i) /\ votingPeriod(i))
          => LET v == ret'.call[2]
                 p == proposals[i]
                 q == proposals'[i]
             IN  /\ ret'.err = "" <=> v \notin p.hasVoted
                 /\ ret'.err # "" => ret'.err = "Already voted on this proposal"
                 /\ q.totalVoters
                       = p.totalVoters + (IF v \in p.hasVoted THEN 0 ELSE 1)
                 /\ q.votesFor + q.votesAgainst
                       = p.votesFor + p.votesAgainst
                           + (IF v \in p.hasVoted THEN 0 ELSE 1)
                 /\ (JustVoted(ret, u, i) /\ v = u)
                       => /\ ret'.err = "Already voted on this proposal"
                          /\ q = p
                 /\ (JustVoted(ret, u, i) /\ v # u /\ v \notin p.hasVoted)
                       => /\ ret'.err = ""
                          /\ {u, v} \subseteq q.hasVoted
                          /\ q.totalVoters = p.totalVoters + 1
      ]_vars

\* two identities voted for a proposal and a repeated vote of one of them
\* was then refused: the proposal counts two voters
C18_Witness ==
    /\ ret.call[1] \in VoteOps
    /\ ret.err = "Already voted on this proposal"
    /\ proposals[ret.call[3]].hasVoted = Voters
    /\ proposals[ret.call[3]].votesFor = 2
    /\ proposals[ret.call[3]].totalVoters = 2

\* C19: in the hook, while an account is connected, every voteOnProposal
\* call for a proposal id that was already voted on since the connect, a
\* call made before the component has rendered again included, is rejected
\* with the already-voted alert and changes no proposal, so that the calls
\* of one session add exactly 1 to votesFor + votesAgainst of the proposal.
C19_OneVotePerSession ==
    [][(/\ hookRet'.call[1] = "voteOnProposal"
        /\ account # null
        /\ rendered.account = account
        /\ hookRet'.call[2] \in sessionVoted)
       => /\ hookRet'.alert = "You have already voted on this proposal."
          /\ hookProposals' = hookProposals
          /\ VotesOn(hookProposals', hookRet'.call[2])
                = VotesOn(hookProposals, hookRet'.call[2])
      ]_vars

\* C20: in the hook, over every sequence of connectWallet, voteOnProposal
\* and disconnectWallet, an account address adds at most one vote to the
\* tallies of a proposal id.
C20_OneVotePerAddress ==
    \A a \in HookAddresses, i \in HookIds : votesCast[a][i] <= 1

\* what a call of performTransaction should add to the balance
Delta(type, amount, recipient) ==
    IF type = "Deposit" THEN amount
    ELSE IF type = "Withdraw" THEN 0 - amount
    ELSE IF type = "Transfer" /\ recipient # "" THEN 0 - amount
    ELSE 0

\* how many transactions a call of performTransaction should prepend
Prepended(type, recipient) ==
    IF type \in {"Deposit", "Withdraw"} THEN 1
    ELSE IF type = "Transfer" /\ recipient # "" THEN 2
    ELSE 0

\* C21: every performTransaction call on a connected account, a call made
\* before the component has rendered again included, adds the amount of a
\* Deposit to the balance and takes the amount of a Withdraw or Transfer
\* from it (so the balance is the balance at connect plus the deposits minus
\* the withdrawals and transfers), leaves the balance equal to the one in
\* the last balanceHistory entry, prepends one transaction for a Deposit or
\* Withdraw and two for a Transfer with a recipient, and appends one
\* balanceHistory entry.
C21_BalanceIsLedger ==
    [][(/\ hookRet'.call[1] = "performTransaction"
        /\ account # null
        /\ rendered.account # null
        /\ rendered.account.address = account.address)
       => LET type == hookRet'.call[2]
              amount == hookRet'.call[3]
              recipient == hookRet'.call[4]
              n == Prepended(type, recipient)
          IN  /\ account'.balance = account.balance + Delta(type, amount, recipient)
              /\ Len(transactions') = Len(transactions) + n
              /\ n > 0 =>
                   /\ Len(balanceHistory') = Len(balanceHistory) + 1
                   /\ balanceHistory'[Len(balanceHistory')].balance
                         = account'.balance
      ]_vars

Changed(before, after) ==
    {k \in 1..Len(before) : after[k] # before[k]}

\* C23: in the hook, after every sequence of createProposal calls on a
\* connected account, two calls made before the component has rendered
\* again included, no two proposals of the list share an id; a
\* voteOnProposal that is accepted for the id of a proposal changes the
\* tallies of exactly one proposal; createProposal with no account
\* connected changes nothing.
C23_DistinctIds ==
    [][/\ \A j, k \in 1..Len(hookProposals') :
             j # k => hookProposals'[j].id # hookProposals'[k].id
       /\ (/\ hookRet'.call[1] = "voteOnProposal"
           /\ hookRet'.alert = ""
           /\ \E k \in 1..Len(hookProposals) :
                 hookProposals[k].id = hookRet'.call[2])
          => /\ Len(hookProposals') = Len(hookProposals)
             /\ Cardinality(Changed(hookProposals, hookProposals')) = 1
       /\ (/\ hookRet'.call[1] = "createProposal"
           /\ account = null
           /\ rendered.account = null)
          => hookProposals' = hookProposals
      ]_vars

====
